---- MODULE Spec2Model ----
(***************************************************************************)
(* MarketMind API (src/python.py): a FastAPI facade that forwards each     *)
(* request to one of two text-generation providers (Gemini, Groq) with a   *)
(* fixed system prompt.                                                    *)
(*                                                                         *)
(* Text is modelled as a sequence of fragments: a caller-supplied string   *)
(* is one fragment, an f-string is the concatenation of its literal        *)
(* fragments and its interpolated values.                                  *)
(***************************************************************************)
EXTENDS Integers, Sequences, FiniteSets, TLC

\* Number of requests the framework dispatches in one run (one task each).
MaxReq == 2

Slots == 1..MaxReq

\* os.getenv gives None for an unset variable, the string otherwise.
None == "<None>"
KeyValues == {None, "", "key"}

\* ---------------------------------------------------------------------------
\* Inputs
\* ---------------------------------------------------------------------------
Messages == {"hi"}
ModeStrings == {"chat", "campaign", "pitch", "leads", "market"}

\* JSON bodies of the ChatRequest endpoints: mode is optional.
ChatBodies ==
    [message : Messages, mode : ModeStrings] \cup [message : Messages]

LeadBodies ==
    [company : {"Acme", "Globex"}, industry : {"SaaS"},
     interactions : {5, -12}, budget_signal : {"high"}]

\* What a provider call can produce: a completion text, or an exception.
Replies == {"reply-1", "reply-2"}
Errors == {"quota exceeded"}
Outcomes ==
    [kind : {"ok"}, text : Replies] \cup [kind : {"raise"}, message : Errors]

\* ---------------------------------------------------------------------------
\* Request models
\* ---------------------------------------------------------------------------
\* class ChatRequest(BaseModel): message: str; mode: str = "chat"
ChatRequest(body) ==
    [message |-> body.message,
     mode |-> IF "mode" \in DOMAIN body THEN body.mode ELSE "chat"]

\* class LeadRequest(BaseModel)
LeadRequest(body) ==
    [company |-> body.company, industry |-> body.industry,
     interactions |-> body.interactions, budget_signal |-> body.budget_signal]

\* Faulty variant: one field is left out of the dump.
dict_partial(req) == [f \in DOMAIN req \ {"budget_signal"} |-> req[f]]

\* req.dict(): the model's fields by name.
dict(req) == [f \in DOMAIN req |-> req[f]]

\* ---------------------------------------------------------------------------
\* SYSTEM_PROMPTS
\* ---------------------------------------------------------------------------
PromptTable ==
    [chat |-> <<"You are MarketMind, an expert Generative AI assistant for sales and marketing teams. ...">>,
     campaign |-> <<"You are MarketMind's Campaign Generator. ...">>,
     pitch |-> <<"You are MarketMind's Sales Pitch Writer. ...">>,
     leads |-> <<"You are MarketMind's Lead Intelligence Engine. ...">>]

\* Faulty variant: the lookup ignores the key.
get_ignoring_key(table, key, default) == default

\* dict.get(key, default)
get(table, key, default) ==
    IF key \in DOMAIN table THEN table[key] ELSE default

\* ---------------------------------------------------------------------------
\* String formatting
\* ---------------------------------------------------------------------------
Digit(d) == <<"0", "1", "2", "3", "4", "5", "6", "7", "8", "9">>[d + 1]

RECURSIVE NatStr(_)
NatStr(n) ==
    IF n < 10 THEN <<Digit(n)>> ELSE NatStr(n \div 10) \o <<Digit(n % 10)>>

\* f"{i}" for an int: decimal digits, with a sign for a negative number.
IntStr(i) == IF i < 0 THEN <<"-">> \o NatStr(-i) ELSE NatStr(i)

\* str(e) for the exception a provider call raised.
ExcStr(e) == e.message

\* ---------------------------------------------------------------------------
\* Provider call wrappers: the request each one sends
\* ---------------------------------------------------------------------------
ask_gemini(prompt, system) ==
    [provider |-> "gemini", model |-> "gemini-1.5-flash",
     full |-> system \o <<"\n\nUser: ">> \o prompt]

ask_groq(prompt, system) ==
    [provider |-> "groq", model |-> "llama3-8b-8192",
     messages |-> <<[role |-> "system", content |-> system],
                    [role |-> "user", content |-> prompt]>>,
     max_tokens |-> 600, temperature |-> "0.7"]

\* ---------------------------------------------------------------------------
\* State
\* ---------------------------------------------------------------------------
VARIABLES
    proc,            \* "booting" | "failed" | "serving"
    GEMINI_API_KEY,  \* environment value read at import
    GROQ_API_KEY,
    SYSTEM_PROMPTS,  \* module-level table, bound when the import reaches it
    pc,              \* per request: "idle" | "calling" | "done"
    endpoint,        \* per request: the route it was dispatched to
    req,             \* per request: the parsed request model
    sent,            \* per request: provider calls issued, in order
    outcome,         \* per request: what its provider call produced
    resp             \* per request: the HTTP response

vars == <<proc, GEMINI_API_KEY, GROQ_API_KEY, SYSTEM_PROMPTS,
          pc, endpoint, req, sent, outcome, resp>>

NoValue == [none |-> TRUE]

Init ==
    /\ proc = "booting"
    /\ GEMINI_API_KEY \in KeyValues
    /\ GROQ_API_KEY \in KeyValues
    /\ SYSTEM_PROMPTS = NoValue
    /\ pc = [s \in Slots |-> "idle"]
    /\ endpoint = [s \in Slots |-> ""]
    /\ req = [s \in Slots |-> NoValue]
    /\ sent = [s \in Slots |-> <<>>]
    /\ outcome = [s \in Slots |-> NoValue]
    /\ resp = [s \in Slots |-> NoValue]

\* `not value` for a str-or-None value
Not(v) == v = None \/ v = ""

\* ---------------------------------------------------------------------------
\* Module import
\* ---------------------------------------------------------------------------
\* Faulty variant: `and` in place of `or`.
KeysMissing_both == Not(GEMINI_API_KEY) /\ Not(GROQ_API_KEY)

KeysMissing == Not(GEMINI_API_KEY) \/ Not(GROQ_API_KEY)

Startup ==
    /\ proc = "booting"
    /\ IF KeysMissing
       THEN /\ proc' = "failed"
            /\ UNCHANGED SYSTEM_PROMPTS
       ELSE /\ proc' = "serving"
            /\ SYSTEM_PROMPTS' = PromptTable
    /\ UNCHANGED <<GEMINI_API_KEY, GROQ_API_KEY,
                   pc, endpoint, req, sent, outcome, resp>>

\* ---------------------------------------------------------------------------
\* Responses
\* ---------------------------------------------------------------------------
Ok(body) == [status |-> 200, body |-> body]

\* Faulty variant: the detail is a generic text, not the one passed in.
HTTPException_generic(status_code, detail) ==
    [status |-> status_code, body |-> [detail |-> "Internal Server Error"]]

HTTPException(status_code, detail) ==
    [status |-> status_code, body |-> [detail |-> detail]]

\* Faulty variant: the handler keeps the message in the shared chat prompt.
Begin_remember(s, route, r, call) ==
    /\ proc = "serving"
    /\ pc[s] = "idle"
    /\ pc' = [pc EXCEPT ![s] = "calling"]
    /\ endpoint' = [endpoint EXCEPT ![s] = route]
    /\ req' = [req EXCEPT ![s] = r]
    /\ sent' = [sent EXCEPT ![s] = Append(@, call)]
    /\ SYSTEM_PROMPTS' =
           [SYSTEM_PROMPTS EXCEPT !["chat"] = @ \o <<"(seen a request)">>]
    /\ UNCHANGED <<proc, GEMINI_API_KEY, GROQ_API_KEY, outcome, resp>>

\* A handler starts: the request is parsed and the handler runs up to its
\* provider call, where it blocks.
Begin(s, route, r, call) ==
    /\ proc = "serving"
    /\ pc[s] = "idle"
    /\ pc' = [pc EXCEPT ![s] = "calling"]
    /\ endpoint' = [endpoint EXCEPT ![s] = route]
    /\ req' = [req EXCEPT ![s] = r]
    /\ sent' = [sent EXCEPT ![s] = Append(@, call)]
    /\ UNCHANGED <<proc, GEMINI_API_KEY, GROQ_API_KEY, SYSTEM_PROMPTS,
                   outcome, resp>>

\* Faulty variant: a call that raised is issued once more.
End_retry(s, route, out, response) ==
    /\ pc[s] = "calling"
    /\ endpoint[s] = route
    /\ IF out.kind = "raise" /\ Len(sent[s]) < 2
       THEN /\ sent' = [sent EXCEPT ![s] = Append(@, @[1])]
            /\ UNCHANGED <<pc, outcome, resp>>
       ELSE /\ pc' = [pc EXCEPT ![s] = "done"]
            /\ outcome' = [outcome EXCEPT ![s] = out]
            /\ resp' = [resp EXCEPT ![s] = response]
            /\ UNCHANGED sent
    /\ UNCHANGED <<proc, GEMINI_API_KEY, GROQ_API_KEY, SYSTEM_PROMPTS,
                   endpoint, req>>

\* The provider call returns or raises, and the handler runs to its end.
End(s, route, out, response) ==
    /\ pc[s] = "calling"
    /\ endpoint[s] = route
    /\ pc' = [pc EXCEPT ![s] = "done"]
    /\ outcome' = [outcome EXCEPT ![s] = out]
    /\ resp' = [resp EXCEPT ![s] = response]
    /\ UNCHANGED <<proc, GEMINI_API_KEY, GROQ_API_KEY, SYSTEM_PROMPTS,
                   endpoint, req, sent>>

\* ---------------------------------------------------------------------------
\* GET /
\* ---------------------------------------------------------------------------
root(s) ==
    /\ proc = "serving"
    /\ pc[s] = "idle"
    /\ pc' = [pc EXCEPT ![s] = "done"]
    /\ endpoint' = [endpoint EXCEPT ![s] = "/"]
    /\ resp' = [resp EXCEPT ![s] =
                    Ok([status |-> "MarketMind API running", version |-> "1.0"])]
    /\ UNCHANGED <<proc, GEMINI_API_KEY, GROQ_API_KEY, SYSTEM_PROMPTS,
                   req, sent, outcome>>

\* ---------------------------------------------------------------------------
\* POST /chat
\* ---------------------------------------------------------------------------
chat_system(r) == get(SYSTEM_PROMPTS, r.mode, SYSTEM_PROMPTS["chat"])

\* Faulty variant: the provider follows the mode.
chat_call_by_mode(r) ==
    IF r.mode = "campaign"
    THEN ask_groq(<<r.message>>, chat_system(r))
    ELSE ask_gemini(<<r.message>>, chat_system(r))

chat_call(r) == ask_gemini(<<r.message>>, chat_system(r))

\* Faulty variant: an unrecognized mode is reported as "chat".
chat_result_normalised(r, out) ==
    IF out.kind = "ok"
    THEN Ok([reply |-> out.text, model |-> "gemini-1.5-flash",
             mode |-> IF r.mode \in DOMAIN SYSTEM_PROMPTS THEN r.mode ELSE "chat"])
    ELSE HTTPException(500, ExcStr(out))

chat_result(r, out) ==
    IF out.kind = "ok"
    THEN Ok([reply |-> out.text, model |-> "gemini-1.5-flash", mode |-> r.mode])
    ELSE HTTPException(500, ExcStr(out))

chat_begin(s) ==
    \E body \in ChatBodies :
        Begin(s, "/chat", ChatRequest(body), chat_call(ChatRequest(body)))

chat_end(s) ==
    \E out \in Outcomes : End(s, "/chat", out, chat_result(req[s], out))

\* ---------------------------------------------------------------------------
\* POST /campaign
\* ---------------------------------------------------------------------------
\* Faulty variant: the template follows the mode.
campaign_call_by_mode(r) ==
    ask_groq(<<r.message>>, get(SYSTEM_PROMPTS, r.mode, SYSTEM_PROMPTS["campaign"]))

campaign_call(r) == ask_groq(<<r.message>>, SYSTEM_PROMPTS["campaign"])

campaign_result(r, out) ==
    IF out.kind = "ok"
    THEN Ok([reply |-> out.text, model |-> "groq-llama3", mode |-> "campaign"])
    ELSE HTTPException(500, ExcStr(out))

generate_campaign_begin(s) ==
    \E body \in ChatBodies :
        Begin(s, "/campaign", ChatRequest(body), campaign_call(ChatRequest(body)))

generate_campaign_end(s) ==
    \E out \in Outcomes : End(s, "/campaign", out, campaign_result(req[s], out))

\* ---------------------------------------------------------------------------
\* POST /pitch
\* ---------------------------------------------------------------------------
pitch_call(r) == ask_gemini(<<r.message>>, SYSTEM_PROMPTS["pitch"])

\* Faulty variant: the request's mode is echoed.
pitch_result_echo(r, out) ==
    IF out.kind = "ok"
    THEN Ok([reply |-> out.text, model |-> "gemini-1.5-flash", mode |-> r.mode])
    ELSE HTTPException(500, ExcStr(out))

pitch_result(r, out) ==
    IF out.kind = "ok"
    THEN Ok([reply |-> out.text, model |-> "gemini-1.5-flash", mode |-> "pitch"])
    ELSE HTTPException(500, ExcStr(out))

generate_pitch_begin(s) ==
    \E body \in ChatBodies :
        Begin(s, "/pitch", ChatRequest(body), pitch_call(ChatRequest(body)))

generate_pitch_end(s) ==
    \E out \in Outcomes : End(s, "/pitch", out, pitch_result(req[s], out))

\* ---------------------------------------------------------------------------
\* POST /score-lead
\* ---------------------------------------------------------------------------
lead_prompt(r) ==
    <<"Lead Details:\n- Company: ", r.company,
      "\n- Industry: ", r.industry,
      "\n- Interactions this week: ">> \o IntStr(r.interactions)
    \o <<"\n- Budget signal: ", r.budget_signal,
         "\nAnalyze and score this lead.">>

lead_call(r) == ask_groq(lead_prompt(r), SYSTEM_PROMPTS["leads"])

lead_result(r, out) ==
    IF out.kind = "ok"
    THEN Ok([reply |-> out.text, model |-> "groq-llama3", lead |-> dict(r)])
    ELSE HTTPException(500, ExcStr(out))

score_lead_begin(s) ==
    \E body \in LeadBodies :
        Begin(s, "/score-lead", LeadRequest(body), lead_call(LeadRequest(body)))

score_lead_end(s) ==
    \E out \in Outcomes : End(s, "/score-lead", out, lead_result(req[s], out))

\* ---------------------------------------------------------------------------
\* POST /analyze-market
\* ---------------------------------------------------------------------------
market_prompt(r) ==
    <<"Provide a market analysis for: ", r.message,
      ". Include trends, opportunities, and competitor landscape.">>

market_call(r) == ask_gemini(market_prompt(r), SYSTEM_PROMPTS["chat"])

market_result(r, out) ==
    IF out.kind = "ok"
    THEN Ok([reply |-> out.text, model |-> "gemini-1.5-flash", mode |-> "market"])
    ELSE HTTPException(500, ExcStr(out))

analyze_market_begin(s) ==
    \E body \in ChatBodies :
        Begin(s, "/analyze-market", ChatRequest(body), market_call(ChatRequest(body)))

analyze_market_end(s) ==
    \E out \in Outcomes : End(s, "/analyze-market", out, market_result(req[s], out))

\* ---------------------------------------------------------------------------
\* Specification
\* ---------------------------------------------------------------------------
Next ==
    \/ Startup
    \/ \E s \in Slots : root(s)
    \/ \E s \in Slots : chat_begin(s)
    \/ \E s \in Slots : chat_end(s)
    \/ \E s \in Slots : generate_campaign_begin(s)
    \/ \E s \in Slots : generate_campaign_end(s)
    \/ \E s \in Slots : generate_pitch_begin(s)
    \/ \E s \in Slots : generate_pitch_end(s)
    \/ \E s \in Slots : score_lead_begin(s)
    \/ \E s \in Slots : score_lead_end(s)
    \/ \E s \in Slots : analyze_market_begin(s)
    \/ \E s \in Slots : analyze_market_end(s)

Spec == Init /\ [][Next]_vars

\* ---------------------------------------------------------------------------
\* Reading a provider call back: the system text and the user text it carries
\* ---------------------------------------------------------------------------
Separator == "\n\nUser: "

SeparatorAt(full) ==
    CHOOSE i \in 1..Len(full) :
        /\ full[i] = Separator
        /\ \A j \in 1..(i - 1) : full[j] # Separator

SystemOf(call) ==
    IF call.provider = "groq"
    THEN call.messages[1].content
    ELSE SubSeq(call.full, 1, SeparatorAt(call.full) - 1)

UserOf(call) ==
    IF call.provider = "groq"
    THEN call.messages[2].content
    ELSE SubSeq(call.full, SeparatorAt(call.full) + 1, Len(call.full))

ProviderBacked ==
    {"/chat", "/campaign", "/pitch", "/score-lead", "/analyze-market"}

Started(s, route) == pc[s] # "idle" /\ endpoint[s] = route
Succeeded(s, route) ==
    pc[s] = "done" /\ endpoint[s] = route /\ resp[s].status = 200

\* ---------------------------------------------------------------------------
\* C1: for every /chat request the system prompt passed to the provider is
\* the table's prompt for the request's mode when the mode is chat, campaign,
\* pitch or leads, and the chat prompt for every other mode string.
\* ---------------------------------------------------------------------------
C1_ChatPromptByMode ==
    \A s \in Slots :
        Started(s, "/chat") =>
            /\ Len(sent[s]) >= 1
            /\ SystemOf(sent[s][1]) =
                   CASE req[s].mode = "chat" -> PromptTable.chat
                     [] req[s].mode = "campaign" -> PromptTable.campaign
                     [] req[s].mode = "pitch" -> PromptTable.pitch
                     [] req[s].mode = "leads" -> PromptTable.leads
                     [] OTHER -> PromptTable.chat

C1_Witness ==
    \E s, t \in Slots :
        /\ Started(s, "/chat") /\ req[s].mode = "market"
        /\ Started(t, "/chat") /\ req[t].mode = "leads"

\* ---------------------------------------------------------------------------
\* C2: when the provider call raises, each of /chat, /campaign, /pitch,
\* /score-lead and /analyze-market answers 500 with a body that is exactly
\* {detail: the error's message}: no reply and no other success field.
\* ---------------------------------------------------------------------------
C2_ErrorIs500WithDetail ==
    \A s \in Slots :
        (pc[s] = "done" /\ endpoint[s] \in ProviderBacked
             /\ outcome[s].kind = "raise") =>
            /\ resp[s].status = 500
            /\ DOMAIN resp[s].body = {"detail"}
            /\ resp[s].body.detail = outcome[s].message

C2_Witness ==
    \E s, t \in Slots :
        /\ pc[s] = "done" /\ endpoint[s] = "/score-lead"
        /\ outcome[s].kind = "raise"
        /\ pc[t] = "done" /\ endpoint[t] = "/analyze-market"
        /\ outcome[t].kind = "raise"

C4_LeadEchoesInput ==
    \A s \in Slots :
        Succeeded(s, "/score-lead") =>
            /\ DOMAIN resp[s].body.lead =
                   {"company", "industry", "interactions", "budget_signal"}
            /\ resp[s].body.lead.company = req[s].company
            /\ resp[s].body.lead.industry = req[s].industry
            /\ resp[s].body.lead.interactions = req[s].interactions
            /\ resp[s].body.lead.budget_signal = req[s].budget_signal

C4_Witness ==
    \E s, t \in Slots :
        /\ Succeeded(s, "/score-lead") /\ Succeeded(t, "/score-lead")
        /\ req[s] # req[t]
        /\ resp[s].body.reply # resp[t].body.reply

\* ---------------------------------------------------------------------------
\* C5: every invocation of a provider-backed endpoint has made exactly one
\* provider call when it responds: no second call after a failure, no
\* response without a call.
\* ---------------------------------------------------------------------------
C5_ExactlyOneCall ==
    \A s \in Slots :
        /\ Len(sent[s]) <= 1
        /\ (pc[s] # "idle" /\ endpoint[s] \in ProviderBacked) =>
               Len(sent[s]) = 1

C5_Witness ==
    \E s, t \in Slots :
        /\ pc[s] = "done" /\ endpoint[s] \in ProviderBacked
        /\ outcome[s].kind = "raise"
        /\ pc[t] = "done" /\ endpoint[t] \in ProviderBacked
        /\ outcome[t].kind = "ok"

\* ---------------------------------------------------------------------------
\* C6: the provider called depends on the endpoint alone: /chat, /pitch and
\* /analyze-market call only Gemini, /campaign and /score-lead only Groq,
\* for every request body.
\* ---------------------------------------------------------------------------
C6_ProviderByEndpoint ==
    \A s \in Slots :
        \A i \in 1..Len(sent[s]) :
            /\ endpoint[s] \in {"/chat", "/pitch", "/analyze-market"} =>
                   sent[s][i].provider = "gemini"
            /\ endpoint[s] \in {"/campaign", "/score-lead"} =>
                   sent[s][i].provider = "groq"

C6_Witness ==
    \E s, t \in Slots :
        /\ Started(s, "/chat") /\ req[s].mode = "campaign"
        /\ Started(t, "/campaign") /\ req[t].mode = "pitch"

\* ---------------------------------------------------------------------------
\* C7: when either key is missing at startup (unset or empty) the process
\* does not start: no request is served and no provider call is made.
\* ---------------------------------------------------------------------------
C7_NoServiceWithoutKeys ==
    (GEMINI_API_KEY \in {None, ""} \/ GROQ_API_KEY \in {None, ""}) =>
        /\ proc # "serving"
        /\ \A s \in Slots :
               pc[s] = "idle" /\ sent[s] = <<>> /\ resp[s] = NoValue

C7_Witness ==
    /\ proc = "failed"
    /\ GEMINI_API_KEY = "key"
    /\ GROQ_API_KEY = ""

\* ---------------------------------------------------------------------------
\* C8: under every interleaving the prompt table keeps its startup contents,
\* and two requests with the same endpoint, the same input and the same
\* provider outcome made the same call and got the same response, whatever
\* else was in flight.
\* ---------------------------------------------------------------------------
C8_NoInterference ==
    /\ proc = "serving" => SYSTEM_PROMPTS = PromptTable
    /\ \A s, t \in Slots :
           (/\ pc[s] # "idle" /\ pc[t] # "idle"
            /\ endpoint[s] = endpoint[t]
            /\ req[s] = req[t]) =>
               /\ sent[s] = sent[t]
               /\ (pc[s] = "done" /\ pc[t] = "done"
                       /\ outcome[s] = outcome[t]) => resp[s] = resp[t]

C8_Witness ==
    \E s, t \in Slots :
        /\ s # t
        /\ pc[s] = "done" /\ pc[t] = "done"
        /\ endpoint[s] = "/chat" /\ endpoint[t] = "/chat"
        /\ req[s] = req[t] /\ req[s].mode = "market"
        /\ outcome[s] = outcome[t] /\ outcome[s].kind = "ok"

\* ---------------------------------------------------------------------------
\* C9: a successful /chat response carries the request's mode string
\* verbatim, also when it is no key of the table, and the provider received
\* the selected system prompt with the request's message as the user text.
\* ---------------------------------------------------------------------------
C9_ChatEchoesMode ==
    \A s \in Slots :
        Succeeded(s, "/chat") =>
            /\ resp[s].body.mode = req[s].mode
            /\ SystemOf(sent[s][1]) =
                   IF req[s].mode \in DOMAIN PromptTable
                   THEN PromptTable[req[s].mode]
                   ELSE PromptTable.chat
            /\ UserOf(sent[s][1]) = <<req[s].message>>

C9_Witness ==
    \E s \in Slots :
        /\ Succeeded(s, "/chat")
        /\ req[s].mode = "market"
        /\ req[s].mode \notin DOMAIN PromptTable

\* ---------------------------------------------------------------------------
\* C10: the request's mode has no effect on /campaign, /pitch and
\* /analyze-market: they use the campaign, pitch and chat templates, and two
\* requests to one of them with the same message send the same call and
\* return the same mode field.
\* ---------------------------------------------------------------------------
ModeBlind == {"/campaign", "/pitch", "/analyze-market"}

C10_ModeIgnored ==
    /\ \A s \in Slots :
           (pc[s] # "idle" /\ endpoint[s] \in ModeBlind) =>
               SystemOf(sent[s][1]) =
                   CASE endpoint[s] = "/campaign" -> PromptTable.campaign
                     [] endpoint[s] = "/pitch" -> PromptTable.pitch
                     [] endpoint[s] = "/analyze-market" -> PromptTable.chat
    /\ \A s, t \in Slots :
           (/\ pc[s] # "idle" /\ pc[t] # "idle"
            /\ endpoint[s] \in ModeBlind
            /\ endpoint[s] = endpoint[t]
            /\ req[s].message = req[t].message) =>
               /\ sent[s] = sent[t]
               /\ (resp[s] # NoValue /\ resp[t] # NoValue
                       /\ resp[s].status = 200 /\ resp[t].status = 200) =>
                      resp[s].body.mode = resp[t].body.mode

C10_Witness ==
    \E s, t \in Slots :
        /\ Succeeded(s, "/campaign") /\ Succeeded(t, "/campaign")
        /\ req[s].message = req[t].message
        /\ req[s].mode = "pitch" /\ req[t].mode = "market"

====
